---- MODULE Spec2Model ----
(***************************************************************************)
(* Ethiopia Tender Watcher (src/main.py): a batch job that scrapes tender  *)
(* listings, filters them by keyword, deduplicates them against a state    *)
(* file and mails a digest or a daily heartbeat.                           *)
(*                                                                         *)
(* Text is a sequence of characters; in a URL the scheme, the host and a   *)
(* path segment each count as one character.  Time is counted in ticks of  *)
(* 1/Sec seconds, so that the sub-second jitter of the retry backoff is a  *)
(* whole number of ticks.                                                  *)
(*                                                                         *)
(* Spec     one process invocation after another (main); the clock moves   *)
(*          between invocations and while the adapters of a run work; a    *)
(*          source adapter is the call run_cycle makes: it returns a list  *)
(*          of notices or raises.                                          *)
(* HttpSpec the two source adapters of the file and the retrying fetcher   *)
(*          they are built on (http_get).                                  *)
(***************************************************************************)
EXTENDS Integers, Sequences, FiniteSets, TLC

\* ------------------------------------------------------------------ bounds
\* Ticks per second: random.random() in [0,1) is j/Sec for j in 0..Sec-1.
Sec == 2
\* Invocations of main in one behaviour.
MaxRuns == 2
\* Calls of a source adapter in one behaviour of HttpSpec.
MaxCalls == 2
\* the longest field value uid_hash is applied to
MaxFieldLen == 1
\* the longest text relevant_score is applied to
MaxTextLen == 3

\* --------------------------------------------------------------- constants
RETRY_MAX == 3
RETRY_BASE_SLEEP == 3
HEARTBEAT_HOUR_UTC == 6
NumSources == 2

Hour == 3600 * Sec
Day == 24 * Hour
\* 90*24*3600 seconds, the retention window of run_cycle
Retention == 90 * 24 * 3600 * Sec

\* ------------------------------------------------------------------- text
\* str.lower() on the alphabet of the model
LowerChar(c) ==
    CASE c = "E" -> "e"
      [] c = "R" -> "r"
      [] c = "P" -> "p"
      [] c = "W" -> "w"
      [] c = "B" -> "b"
      [] OTHER -> c

lower(s) == [i \in 1..Len(s) |-> LowerChar(s[i])]

\* Python's `k in t` on strings: k occurs as a contiguous substring of t
Contains(k, t) ==
    \E i \in 0..(Len(t) - Len(k)) : SubSeq(t, i + 1, i + Len(k)) = k

\* The keyword set of the run (config/keywords.txt holding "erp" and "web");
\* load_keywords lowercases every line and drops the blank ones.
KEYWORDS == { <<"e", "r", "p">>, <<"w", "e", "b">> }

\* str.strip() on the alphabet of the model: blanks at both ends go
RECURSIVE lstrip(_)
lstrip(s) == IF s # <<>> /\ Head(s) = " " THEN lstrip(Tail(s)) ELSE s

RECURSIVE rstrip(_)
rstrip(s) ==
    IF s # <<>> /\ s[Len(s)] = " " THEN rstrip(SubSeq(s, 1, Len(s) - 1)) ELSE s

strip(s) == rstrip(lstrip(s))

\* The built-in list load_keywords falls back to
DefaultKeywords ==
    << <<"s", "o", "f", "t", "w", "a", "r", "e">>,
       <<"w", "e", "b">>,
       <<"w", "e", "b", "s", "i", "t", "e">>,
       <<"m", "o", "b", "i", "l", "e">>,
       <<"a", "p", "p">>,
       <<"a", "n", "d", "r", "o", "i", "d">>,
       <<"i", "o", "s">>,
       <<"e", "r", "p">>,
       <<"c", "r", "m">>,
       <<"a", "p", "i">>,
       <<"d", "e", "v", "o", "p", "s">>,
       <<"s", "e", "c", "u", "r", "i", "t", "y">>,
       <<"c", "y", "b", "e", "r", "s", "e", "c", "u", "r", "i", "t", "y">>,
       <<"w", "a", "f">>,
       <<"p", "a", "m">>,
       <<"o", "b", "s", "e", "r", "v", "a", "b", "i", "l", "i", "t", "y">>,
       <<"i", "t", "s", "m">>,
       <<"i", "n", "t", "e", "g", "r", "a", "t", "i", "o", "n">>,
       <<"d", "a", "t", "a", "b", "a", "s", "e">>,
       <<"a", "i">>,
       <<"m", "a", "c", "h", "i", "n", "e", " ", "l", "e", "a", "r", "n", "i", "n", "g">>,
       <<"c", "l", "o", "u", "d">>,
       <<"p", "o", "r", "t", "a", "l">>,
       <<"d", "i", "g", "i", "t", "a", "l">>,
       <<"i", "c", "t">> >>

\* config/keywords.txt: there or not, and its lines
KeywordsFile(lines) == [exists |-> TRUE, lines |-> lines]
NoKeywordsFile == [exists |-> FALSE, lines |-> <<>>]

load_keywords(f) ==
    IF f.exists
    THEN LET kept == SelectSeq(f.lines, LAMBDA ln : strip(ln) # <<>>)
         IN  [i \in 1..Len(kept) |-> lower(strip(kept[i]))]
    ELSE DefaultKeywords

\* set(...) of a list
ToSet(list) == {list[i] : i \in 1..Len(list)}

CaseSensitiveScore(keywords, text) ==
    Cardinality({k \in keywords : Contains(k, text)})

\* relevant_score with the module's KEYWORDS being `keywords`
ScoreAgainst(keywords, text) ==
    Cardinality({k \in keywords : Contains(k, lower(text))})

relevant_score(text) == ScoreAgainst(KEYWORDS, text)

\* sha256 of "title|buyer|deadline|url"; the digest is taken to be injective,
\* so the fingerprint is the joined string itself.
HashWithoutDeadline(title, buyer, deadline, url) ==
    title \o <<"|">> \o buyer \o <<"|">> \o url

uid_hash(title, buyer, deadline, url) ==
    title \o <<"|">> \o buyer \o <<"|">> \o deadline \o <<"|">> \o url

\* The text run_cycle scores: f"{title} {url}"
text_blob(n) == n.title \o <<" ">> \o n.url

Uid(n) == uid_hash(n.title, n.buyer, n.deadline, n.url)

\* ---------------------------------------------------------------- notices
Notice(title, url, source) ==
    [title |-> title, buyer |-> <<>>, deadline |-> <<>>, url |-> url,
     source |-> source]

\* "ERP" at x/1: relevant by its title, case-insensitively
NErp == Notice(<<"E", "R", "P">>, <<"x", "/", "1">>, "A")
\* "oc" (office chairs) at x/2: no keyword in title or URL
NChairs == Notice(<<"o", "c">>, <<"x", "/", "2">>, "A")
\* "oc" at x/web: relevant by its URL only
NByUrl == Notice(<<"o", "c">>, <<"x", "/", "w", "e", "b">>, "B")

\* What one call of a source adapter can give run_cycle: an exception, or a
\* list of notices.
Returned(items) == [raised |-> FALSE, items |-> items]
Raised == [raised |-> TRUE, items |-> <<>>]

Feeds == { <<>>, <<NErp, NChairs>>, <<NErp, NErp>>, <<NByUrl>> }

Outcomes == {Raised} \cup {Returned(f) : f \in Feeds}

\* ------------------------------------------------------------- state file
HBKey == <<"_last_heartbeat">>

EmptyMap == [k \in {} |-> 0]

\* The file state/seen.json: absent; not JSON ("garbage"); JSON but not an
\* object ("nonobject", e.g. []); an object with a value that is no number
\* ("badobject", e.g. {"k": "x"}); or an object of numbers ("object", map).
FileKinds == {"absent", "garbage", "nonobject", "badobject", "object"}

FileOf(kind, map) == [kind |-> kind, map |-> map]

\* load_state: {} for a missing or unparseable file, else whatever JSON
\* value the file holds.
load_state(f) ==
    IF f.kind \in {"absent", "garbage"} THEN FileOf("object", EmptyMap) ELSE f

\* save_state: the file becomes the JSON text of the mapping.
save_state(st) == FileOf(st.kind, st.map)

\* state[k] = t
Put(map, k, t) ==
    [x \in (DOMAIN map) \cup {k} |-> IF x = k THEN t ELSE map[x]]

\* {k: v for k, v in state.items() if v >= cutoff}
Trimmed(map, cutoff) ==
    [k \in {x \in DOMAIN map : map[x] >= cutoff} |-> map[k]]


\* --------------------------------------------------------------- run_cycle
\* One pass of `for n in items` of run_cycle.  acc is [map, new, checked]:
\* the in-memory state, new_notices and checked_count.  seenSet is the set
\* built once from the keys of the loaded state; t is time.time().
CountOnlyAccepted(n, seenSet, t, acc) ==
    IF Uid(n) \in seenSet \/ relevant_score(text_blob(n)) < 1
    THEN acc
    ELSE [map |-> Put(acc.map, Uid(n), t), new |-> Append(acc.new, n),
          checked |-> acc.checked + 1]

AcceptIrrelevant(n, seenSet, t, acc) ==
    LET counted == [acc EXCEPT !.checked = @ + 1]
    IN  IF Uid(n) \in seenSet THEN counted
        ELSE [counted EXCEPT !.new = Append(@, n),
                             !.map = Put(@, Uid(n), t)]

RefreshSeen(n, seenSet, t, acc) ==
    LET counted == [acc EXCEPT !.checked = @ + 1]
    IN  IF Uid(n) \in seenSet THEN [counted EXCEPT !.map = Put(@, Uid(n), t)]
        ELSE IF relevant_score(text_blob(n)) < 1 THEN counted
        ELSE [counted EXCEPT !.new = Append(@, n),
                             !.map = Put(@, Uid(n), t)]

ItemStep(n, seenSet, t, acc) ==
    LET counted == [acc EXCEPT !.checked = @ + 1]
    IN  IF Uid(n) \in seenSet THEN counted
        ELSE IF relevant_score(text_blob(n)) < 1 THEN counted
        ELSE [counted EXCEPT !.new = Append(@, n),
                             !.map = Put(@, Uid(n), t)]

RECURSIVE ItemLoop(_, _, _, _)
ItemLoop(items, seenSet, t, acc) ==
    IF items = <<>> THEN acc
    ELSE ItemLoop(Tail(items), seenSet, t, ItemStep(Head(items), seenSet, t, acc))

\* Lines 200-204: cutoff, trimmed and the conditional rebinding of state.
KeepEverything(map, t) == map

TrimState(map, t) ==
    LET cutoff == t - Retention
        trimmed == Trimmed(map, cutoff)
    IN  IF Cardinality(DOMAIN trimmed) # Cardinality(DOMAIN map)
        THEN trimmed ELSE map

\* ------------------------------------------------------------ format_email
Row(n) ==
    [title |-> n.title, buyer |-> n.buyer, deadline |-> n.deadline,
     url |-> n.url, source |-> n.source]

\* The subject carries the number of notices, the body the number of items
\* checked and one row per notice; with no notice it is the fixed
\* "no new notices" text.
format_email(notices, checked) ==
    IF notices # <<>>
    THEN [subject |-> [text |-> "N new software/ICT notices", n |-> Len(notices)],
          html |-> [text |-> "New tenders detected", checked |-> checked,
                    rows |-> [i \in 1..Len(notices) |-> Row(notices[i])]]]
    ELSE [subject |-> [text |-> "No new software/ICT notices", n |-> 0],
          html |-> [text |-> "No new matching tenders", checked |-> checked,
                    rows |-> <<>>]]

HeartbeatMail ==
    [subject |-> [text |-> "Daily heartbeat", n |-> 0],
     html |-> [text |-> "Watcher is running", checked |-> 0, rows |-> <<>>]]

NoMail ==
    [subject |-> [text |-> "", n |-> 0],
     html |-> [text |-> "", checked |-> 0, rows |-> <<>>]]

\* -------------------------------------------------------------- send_email
\* SMTP_USER, SMTP_PASS and ALERT_TO as the process finds them: set or not.
\* All three set, or one of them missing.
Creds ==
    {c \in [user : BOOLEAN, pass : BOOLEAN, to : BOOLEAN] :
        Cardinality({f \in {"user", "pass", "to"} : ~c[f]}) <= 1}

Unread == [read |-> FALSE, user |-> FALSE, pass |-> FALSE, to |-> FALSE]

ReadCreds(c) == [read |-> TRUE, user |-> c.user, pass |-> c.pass, to |-> c.to]

UserAndPassOnly(c) == c.user /\ c.pass

\* `SMTP_USER and SMTP_PASS and ALERT_TO`
HasCreds(c) == c.user /\ c.pass /\ c.to

\* The steps of the SMTP session in the order send_email takes them; "quit"
\* is the QUIT that leaving the `with smtplib.SMTP(...)` block sends.
SmtpSteps == <<"connect", "starttls", "login", "sendmail", "quit">>

\* Where the transport fails: at one of the steps, or nowhere.
SmtpFaults == {"none", "connect", "starttls", "login", "sendmail", "quit"}

StepIndex(f) == CHOOSE i \in 1..Len(SmtpSteps) : SmtpSteps[i] = f

\* The result of send_email(subject, html): the SMTP steps attempted, whether
\* the message was handed to the transport, whether an exception leaves
\* send_email.
send_email(c, fault, mail) ==
    IF ~HasCreds(c)
    THEN [smtp |-> <<>>, handed |-> FALSE, raised |-> FALSE]
    ELSE IF fault = "none"
    THEN [smtp |-> SmtpSteps, handed |-> TRUE, raised |-> FALSE]
    ELSE [smtp |-> SubSeq(SmtpSteps, 1, StepIndex(fault)),
          handed |-> StepIndex(fault) > StepIndex("sendmail"),
          raised |-> TRUE]

\* ---------------------------------------------------- maybe_send_heartbeat
\* time.gmtime(now): the UTC calendar day of now
UtcDay(t) == t \div Day

\* time.mktime of (year, month, day of `day`, hour, 0, 0): mktime reads the
\* fields as local time; the local zone is zone ticks ahead of UTC.
mktime(day, hour, zone) == day * Day + hour * Hour - zone

target_today(t, zone) == mktime(UtcDay(t), HEARTBEAT_HOUR_UTC, zone)

last_hb(map) == IF HBKey \in DOMAIN map THEN map[HBKey] ELSE 0

OnlyHeartbeat(st, t) == FileOf("object", HBKey :> t)

\* state["_last_heartbeat"] = now, on the state maybe_send_heartbeat loaded
WithHeartbeat(st, t) == [st EXCEPT !.map = Put(@, HBKey, t)]

PastTargetOnly(t, last, target) == t >= target

\* `now >= target_today and last_hb < target_today`
HeartbeatDue(t, last, target) == t >= target /\ last < target


\* ------------------------------------------------------------------- state
VARIABLES
    now,            \* time.time(), in ticks
    tz,             \* offset of the local time zone from UTC, in ticks
    file,           \* state/seen.json
    runs,           \* invocations of main finished so far
    ticked,         \* the clock advanced since the last invocation
    rerun,          \* the adapter outputs the next invocation sees again
    hbLog,          \* the calls of maybe_send_heartbeat that returned True
    pc,             \* where main is
    state,          \* run_cycle: the loaded state
    seen,           \* run_cycle: set(state.keys())
    new_notices,    \* run_cycle: new_notices
    checked_count,  \* run_cycle: checked_count
    fi,             \* run_cycle: index into SOURCES of the next adapter
    outs,           \* what the adapters called so far in this run gave
    loaded,         \* the JSON value load_state gave at the start of the run
    creds,          \* the credentials send_email read, once it has run
    hb_enable,      \* HEARTBEAT_ENABLE, once maybe_send_heartbeat has read it
    mail,           \* the (subject, html) main formatted
    smtp,           \* the SMTP steps attempted in this run
    handed,         \* the messages handed to the transport in this run
    hb_ret,         \* what maybe_send_heartbeat returned
    exc,            \* the exception that ended main, or "none"
    hpc,            \* http_get and its adapter: where the call is
    attempt,        \* http_get: attempt
    last_exc,       \* http_get: last_exc
    reqs,           \* http_get: the outcome of each request issued
    sleeps,         \* http_get: the length of each time.sleep made
    http_raised,    \* http_get: the exception it raised, or "none"
    page,           \* the response http_get returned: the anchors of the page
    items,          \* what the adapter returned
    wr,             \* write_text: what the file held before and is to hold
    pure            \* a call of a pure function: its arguments and result

clockVars == <<now, tz>>
diskVars == <<file, runs, ticked, rerun, hbLog>>
cycleVars == <<state, seen, new_notices, checked_count, fi, outs, loaded>>
notifyVars == <<creds, hb_enable, mail, smtp, handed, hb_ret, exc>>
httpVars == <<hpc, attempt, last_exc, reqs, sleeps, http_raised, page, items>>
auxVars == <<wr, pure>>
vars == <<clockVars, diskVars, pc, cycleVars, notifyVars, httpVars, auxVars>>

\* ----------------------------------------------------------- initial state
\* The first invocation is at 05:00 UTC of day 100 of the epoch.
T0 == 100 * Day + 5 * Hour

\* UTC, and East Africa Time (UTC+3)
TZOffsets == {0, 3 * Hour}

\* How far the clock moves between two invocations.
TickSteps == {Hour, Retention + Hour}

\* Mappings a state file may hold when the first run starts: the ERP notice
\* and the heartbeat both seen 91 days ago; the ERP notice seen exactly 90
\* days ago and the heartbeat yesterday; the ERP notice seen yesterday.
InitMaps ==
    { (Uid(NErp) :> T0 - Retention - Day) @@ (HBKey :> T0 - Retention - Day),
      (Uid(NErp) :> T0 - Retention) @@ (HBKey :> T0 - Day),
      (Uid(NErp) :> T0 - Day) }

InitFiles ==
    {FileOf(k, EmptyMap) : k \in FileKinds \ {"object"}}
        \cup {FileOf("object", m) : m \in InitMaps}

NoRerun == [on |-> FALSE, outs |-> <<>>, t |-> 0]

CycleIdle ==
    /\ state = FileOf("object", EmptyMap)
    /\ loaded = FileOf("object", EmptyMap)
    /\ seen = {}
    /\ new_notices = <<>>
    /\ checked_count = 0
    /\ fi = 1
    /\ outs = <<>>

NotifyIdle ==
    /\ creds = Unread
    /\ hb_enable = "unread"
    /\ mail = NoMail
    /\ smtp = <<>>
    /\ handed = <<>>
    /\ hb_ret = "none"
    /\ exc = "none"

HttpIdle ==
    /\ hpc = "off"
    /\ attempt = 1
    /\ last_exc = "none"
    /\ reqs = <<>>
    /\ sleeps = <<>>
    /\ http_raised = "none"
    /\ page = <<>>
    /\ items = <<>>

NoWrite ==
    [old |-> FileOf("absent", EmptyMap), new |-> FileOf("absent", EmptyMap),
     interrupted |-> FALSE]

NoPure == [op |-> "none"]

AuxIdle ==
    /\ wr = NoWrite
    /\ pure = NoPure

Init ==
    /\ now = T0
    /\ tz \in TZOffsets
    /\ file \in InitFiles
    /\ runs = 0
    /\ ticked = FALSE
    /\ rerun = NoRerun
    /\ hbLog = <<>>
    /\ pc = "idle"
    /\ CycleIdle
    /\ NotifyIdle
    /\ HttpIdle
    /\ AuxIdle

\* ------------------------------------------------------------- environment
\* Time passes between two invocations of main.
Tick ==
    /\ pc = "idle"
    /\ runs < MaxRuns
    /\ ~ticked
    /\ ~rerun.on
    /\ \E d \in TickSteps : now' = now + d
    /\ ticked' = TRUE
    /\ UNCHANGED <<tz, file, runs, rerun, hbLog, pc, cycleVars, notifyVars, httpVars>>
    /\ UNCHANGED auxVars

\* The adapters took their time (requests, timeouts, backoff): the clock has
\* moved on between the first time.time() of run_cycle and the cutoff.
FetchersTookTime ==
    /\ pc = "trim"
    /\ ~ticked
    /\ ~rerun.on
    /\ now' = now + Hour
    /\ ticked' = TRUE
    /\ UNCHANGED <<tz, file, runs, rerun, hbLog, pc, cycleVars, notifyVars, httpVars>>
    /\ UNCHANGED auxVars

\* -------------------------------------------------------------------- main
\* main() calls run_cycle(), which loads the state and builds `seen`
\* (lines 175-178).  A loaded value that is no mapping has no keys():
\* the AttributeError ends main.
StartMain ==
    /\ pc = "idle"
    /\ runs < MaxRuns
    /\ ticked' = FALSE
    /\ loaded' = load_state(file)
    /\ state' = loaded'
    /\ IF loaded'.kind = "nonobject"
       THEN /\ exc' = "AttributeError"
            /\ pc' = "done"
            /\ seen' = {}
       ELSE /\ exc' = "none"
            /\ pc' = "fetch"
            /\ seen' = DOMAIN loaded'.map
    /\ new_notices' = <<>>
    /\ checked_count' = 0
    /\ fi' = 1
    /\ outs' = <<>>
    /\ UNCHANGED <<clockVars, file, runs, rerun, hbLog, httpVars>>
    /\ UNCHANGED <<creds, hb_enable, mail, smtp, handed, hb_ret>>
    /\ UNCHANGED auxVars

\* Where run_cycle goes after the adapter fi raised: the except clause logs
\* and the loop goes on with an empty list.
AbortOnRaise(i) == "done"

AfterRaise(i) == IF i = NumSources THEN "trim" ELSE "fetch"

\* One iteration of `for fetcher in SOURCES` (lines 180-198) with the
\* outcome o of fetcher().
Fetch(o) ==
    /\ pc = "fetch"
    /\ rerun.on => o = rerun.outs[fi]
    /\ LET acc == ItemLoop(o.items, seen, now,
                           [map |-> state.map, new |-> new_notices,
                            checked |-> checked_count])
       IN  /\ state' = [state EXCEPT !.map = acc.map]
           /\ new_notices' = acc.new
           /\ checked_count' = acc.checked
    /\ outs' = Append(outs, o)
    /\ fi' = fi + 1
    /\ pc' = IF o.raised THEN AfterRaise(fi)
             ELSE IF fi = NumSources THEN "trim" ELSE "fetch"
    /\ UNCHANGED <<clockVars, diskVars, seen, loaded, notifyVars, httpVars>>
    /\ UNCHANGED auxVars

FetcherRaises == Fetch(Raised)

FetcherReturns == \E f \in Feeds : Fetch(Returned(f))

\* Lines 200-206: trim, save, return.  Comparing a value that is no number
\* with the cutoff raises TypeError, which ends main before save_state.
TrimAndSave ==
    /\ pc = "trim"
    /\ IF state.kind = "badobject"
       THEN /\ exc' = "TypeError"
            /\ pc' = "done"
            /\ UNCHANGED <<state, file>>
       ELSE /\ state' = [state EXCEPT !.map = TrimState(state.map, now)]
            /\ file' = save_state(state')
            /\ pc' = "notify"
            /\ UNCHANGED exc
    /\ UNCHANGED <<clockVars, runs, ticked, rerun, hbLog, httpVars>>
    /\ UNCHANGED <<seen, new_notices, checked_count, fi, outs, loaded>>
    /\ UNCHANGED <<creds, hb_enable, mail, smtp, handed, hb_ret>>
    /\ UNCHANGED auxVars

AlwaysDigest(notices) == TRUE

\* `if new_notices:` of main
WantsDigest(notices) == notices # <<>>

\* main, lines 260-263: format the mail and send the digest.  The module
\* reads SMTP_USER, SMTP_PASS and ALERT_TO from the environment when it is
\* imported; nothing reads them before send_email, where the model draws them.
MainDigest ==
    /\ pc = "notify"
    /\ WantsDigest(new_notices)
    /\ mail' = format_email(new_notices, checked_count)
    /\ \E c \in Creds, fault \in SmtpFaults :
         LET r == send_email(c, fault, mail')
         IN  /\ creds' = ReadCreds(c)
             /\ smtp' = r.smtp
             /\ handed' = IF r.handed THEN <<mail'>> ELSE <<>>
             /\ exc' = IF r.raised THEN "SMTPException" ELSE "none"
    /\ pc' = "done"
    /\ UNCHANGED <<clockVars, diskVars, cycleVars, hb_enable, hb_ret, httpVars>>
    /\ UNCHANGED auxVars

\* main, lines 260-265 with no new notice: maybe_send_heartbeat().
MainHeartbeat ==
    /\ pc = "notify"
    /\ ~WantsDigest(new_notices)
    /\ mail' = format_email(new_notices, checked_count)
    /\ pc' = "done"
    /\ \E enabled \in BOOLEAN :
        /\ hb_enable' = IF enabled THEN "true" ELSE "false"
        /\ LET st == load_state(file)
               target == target_today(now, tz)
           IN  IF enabled /\ HeartbeatDue(now, last_hb(st.map), target)
               THEN \E c \in Creds, fault \in SmtpFaults :
                      LET r == send_email(c, fault, HeartbeatMail)
                      IN  /\ creds' = ReadCreds(c)
                          /\ smtp' = r.smtp
                          /\ handed' = IF r.handed THEN <<HeartbeatMail>> ELSE <<>>
                          /\ IF r.raised
                             THEN /\ exc' = "SMTPException"
                                  /\ UNCHANGED <<file, hbLog, hb_ret>>
                             ELSE /\ exc' = "none"
                                  /\ file' = save_state(WithHeartbeat(st, now))
                                  /\ hbLog' = Append(hbLog,
                                        [t |-> now, sent |-> r.handed])
                                  /\ hb_ret' = "True"
               ELSE /\ hb_ret' = "False"
                    /\ UNCHANGED <<file, hbLog, creds, smtp, handed, exc>>
    /\ UNCHANGED <<clockVars, runs, ticked, rerun, cycleVars, httpVars>>
    /\ UNCHANGED auxVars

\* The process ends.  The next invocation either sees the adapters give what
\* they gave this time, at once, or anything at any later time.
Exit ==
    /\ pc = "done"
    /\ pc' = "idle"
    /\ runs' = runs + 1
    /\ \/ rerun' = NoRerun
       \/ /\ Len(outs) = NumSources
          /\ runs + 1 < MaxRuns
          /\ rerun' = [on |-> TRUE, outs |-> outs, t |-> now]
    /\ state' = FileOf("object", EmptyMap)
    /\ loaded' = FileOf("object", EmptyMap)
    /\ seen' = {}
    /\ new_notices' = <<>>
    /\ checked_count' = 0
    /\ fi' = 1
    /\ outs' = <<>>
    /\ creds' = Unread
    /\ hb_enable' = "unread"
    /\ mail' = NoMail
    /\ smtp' = <<>>
    /\ handed' = <<>>
    /\ hb_ret' = "none"
    /\ exc' = "none"
    /\ UNCHANGED <<clockVars, file, ticked, hbLog, httpVars>>
    /\ UNCHANGED auxVars

Next ==
    \/ Tick
    \/ FetchersTookTime
    \/ StartMain
    \/ FetcherRaises
    \/ FetcherReturns
    \/ TrimAndSave
    \/ MainDigest
    \/ MainHeartbeat
    \/ Exit

Spec == Init /\ [][Next]_vars


\* ---------------------------------------------------- http_get, adapters
\* The page an adapter scrapes and its source tag.
SourceUrl(i) ==
    IF i = 1 THEN <<"https://", "www.ethiopiantender.com", "/">>
    ELSE <<"https://", "www.globaltenders.com", "/", "ethiopia", "/",
           "et-software-tenders">>

SourceTag(i) ==
    IF i = 1 THEN "EthiopianTender.com" ELSE "GlobalTenders (ET Software)"

IsScheme(c) == c \in {"http://", "https://"}

\* The base up to and including its last "/"
DirOf(base) ==
    LET last == CHOOSE i \in 1..Len(base) :
                    /\ base[i] = "/"
                    /\ \A j \in (i + 1)..Len(base) : base[j] # "/"
    IN  SubSeq(base, 1, last)

\* urllib.parse.urljoin for a non-empty href that is absolute, rooted ("/x")
\* or a relative path ("x")
urljoin(base, href) ==
    IF IsScheme(Head(href)) THEN href
    ELSE IF Head(href) = "/" THEN SubSeq(base, 1, 2) \o href
    ELSE DirOf(base) \o href

Anchor(text, href) == [text |-> text, href |-> href]

\* <a href="1">ERP</a>
AErp == Anchor(<<"E", "R", "P">>, <<"1">>)
\* <a href="/2">oc</a>: no keyword in the text
AChairs == Anchor(<<"o", "c">>, <<"/", "2">>)
\* <a href="3"></a>: no text
ANoText == Anchor(<<>>, <<"3">>)
\* <a>Web</a>: no href
ANoHref == Anchor(<<"W", "e", "b">>, <<>>)
\* <a href="http://x/w">a web b</a>
AAbsolute == Anchor(<<"a", " ", "w", "e", "b">>, <<"http://", "x", "/", "w">>)

Pages == { <<>>, <<AErp, AChairs>>, <<ANoText, ANoHref, AAbsolute, AErp>> }

\* requests.get raised, or raise_for_status did on a non-2xx status
HttpErrors == {"ConnectionError", "HTTPError"}

Ok(p) == [ok |-> TRUE, err |-> "none", page |-> p]
Failed(e) == [ok |-> FALSE, err |-> e, page |-> <<>>]

\* The loop over soup.select("a") of an adapter (lines 116-130)
RECURSIVE AnchorLoop(_, _)
AnchorLoop(anchors, i) ==
    IF anchors = <<>> THEN <<>>
    ELSE LET a == Head(anchors)
             rest == AnchorLoop(Tail(anchors), i)
         IN  IF a.text = <<>> \/ a.href = <<>> THEN rest
             ELSE IF relevant_score(a.text) < 1 THEN rest
             ELSE <<Notice(a.text, urljoin(SourceUrl(i), a.href), SourceTag(i))>>
                      \o rest

KeepFirstExc(prev, e) == IF prev = "none" THEN e ELSE prev

\* `last_exc = e`
NextLastExc(prev, e) == e

\* RETRY_BASE_SLEEP * attempt + random.random(), with jitter j/Sec
SleepFor(k, j) == RETRY_BASE_SLEEP * k * Sec + j

InitHttp ==
    /\ now = T0
    /\ tz = 0
    /\ file = FileOf("absent", EmptyMap)
    /\ runs = 0
    /\ ticked = FALSE
    /\ rerun = NoRerun
    /\ hbLog = <<>>
    /\ pc = "idle"
    /\ CycleIdle
    /\ NotifyIdle
    /\ HttpIdle
    /\ AuxIdle

\* An adapter is called and calls http_get(url): lines 73-74.
AdapterCall ==
    /\ hpc = "off"
    /\ runs < MaxCalls
    /\ \E i \in 1..NumSources : fi' = i
    /\ hpc' = "request"
    /\ attempt' = 1
    /\ last_exc' = "none"
    /\ reqs' = <<>>
    /\ sleeps' = <<>>
    /\ http_raised' = "none"
    /\ page' = <<>>
    /\ items' = <<>>
    /\ UNCHANGED <<now, tz, file, runs, ticked, rerun, hbLog, pc, notifyVars>>
    /\ UNCHANGED <<state, seen, new_notices, checked_count, outs, loaded>>
    /\ UNCHANGED auxVars

\* One iteration of the loop of http_get whose request succeeds: http_get
\* returns the response (lines 76-78).
HttpRequestOk ==
    /\ hpc = "request"
    /\ \E p \in Pages :
        /\ reqs' = Append(reqs, Ok(p))
        /\ page' = p
    /\ hpc' = "parse"
    /\ UNCHANGED <<now, runs, fi, attempt, last_exc, sleeps, http_raised, items>>
    /\ UNCHANGED <<tz, file, ticked, rerun, hbLog, pc, notifyVars>>
    /\ UNCHANGED <<state, seen, new_notices, checked_count, outs, loaded>>
    /\ UNCHANGED auxVars

\* One iteration whose request fails (lines 79-83): remember the exception
\* and sleep; after the iteration for attempt RETRY_MAX the loop is over and
\* line 84 raises, which the adapter catches to return [] (lines 132-134).
HttpRequestFails ==
    /\ hpc = "request"
    /\ \E e \in HttpErrors, j \in 0..(Sec - 1) :
        /\ reqs' = Append(reqs, Failed(e))
        /\ last_exc' = NextLastExc(last_exc, e)
        /\ sleeps' = Append(sleeps, SleepFor(attempt, j))
        /\ now' = now + SleepFor(attempt, j)
    /\ IF attempt = RETRY_MAX
       THEN /\ http_raised' = last_exc'
            /\ items' = <<>>
            /\ hpc' = "returned"
            /\ UNCHANGED attempt
       ELSE /\ attempt' = attempt + 1
            /\ UNCHANGED <<http_raised, items, hpc>>
    /\ UNCHANGED <<runs, fi, page>>
    /\ UNCHANGED <<tz, file, ticked, rerun, hbLog, pc, notifyVars>>
    /\ UNCHANGED <<state, seen, new_notices, checked_count, outs, loaded>>
    /\ UNCHANGED auxVars

\* The adapter parses the response and scans its anchors (lines 114-131);
\* a parser that raises makes it return [] (lines 132-134).
AdapterParse ==
    /\ hpc = "parse"
    /\ \E parsed \in BOOLEAN :
        items' = IF parsed THEN AnchorLoop(page, fi) ELSE <<>>
    /\ hpc' = "returned"
    /\ UNCHANGED <<now, runs, fi, attempt, last_exc, reqs, sleeps, http_raised, page>>
    /\ UNCHANGED <<tz, file, ticked, rerun, hbLog, pc, notifyVars>>
    /\ UNCHANGED <<state, seen, new_notices, checked_count, outs, loaded>>
    /\ UNCHANGED auxVars

\* The adapter has returned; its frame is gone.
AdapterReturn ==
    /\ hpc = "returned"
    /\ hpc' = "off"
    /\ runs' = runs + 1
    /\ fi' = 1
    /\ attempt' = 1
    /\ last_exc' = "none"
    /\ reqs' = <<>>
    /\ sleeps' = <<>>
    /\ http_raised' = "none"
    /\ page' = <<>>
    /\ items' = <<>>
    /\ UNCHANGED <<now, tz, file, ticked, rerun, hbLog, pc, notifyVars>>
    /\ UNCHANGED <<state, seen, new_notices, checked_count, outs, loaded>>
    /\ UNCHANGED auxVars

NextHttp ==
    \/ AdapterCall
    \/ HttpRequestOk
    \/ HttpRequestFails
    \/ AdapterParse
    \/ AdapterReturn

HttpSpec == InitHttp /\ [][NextHttp]_vars

\* ------------------------------------------------ a kill during save_state
\* run_cycle up to save_state, lines 196-203, and the first half of
\* Path.write_text: open(path, "w") truncates the file before a byte of the
\* new text is written.  Whatever part of the text is there while the write
\* is under way, it is no JSON document.
TrimAndOpen ==
    /\ pc = "trim"
    /\ IF state.kind = "badobject"
       THEN /\ exc' = "TypeError"
            /\ pc' = "done"
            /\ UNCHANGED <<state, file, wr>>
       ELSE /\ state' = [state EXCEPT !.map = TrimState(state.map, now)]
            /\ wr' = [old |-> file, new |-> save_state(state'),
                      interrupted |-> FALSE]
            /\ file' = FileOf("garbage", EmptyMap)
            /\ pc' = "saving"
            /\ UNCHANGED exc
    /\ UNCHANGED <<clockVars, runs, ticked, rerun, hbLog, httpVars, pure>>
    /\ UNCHANGED <<seen, new_notices, checked_count, fi, outs, loaded>>
    /\ UNCHANGED <<creds, hb_enable, mail, smtp, handed, hb_ret>>

\* The second half of write_text: the whole text is in the file, which is
\* closed; run_cycle returns.
WriteText ==
    /\ pc = "saving"
    /\ file' = save_state(state)
    /\ pc' = "notify"
    /\ UNCHANGED <<clockVars, runs, ticked, rerun, hbLog, httpVars, auxVars>>
    /\ UNCHANGED <<cycleVars, notifyVars>>

\* The process is killed between the two halves; the file stays as it is.
Killed ==
    /\ pc = "saving"
    /\ wr' = [wr EXCEPT !.interrupted = TRUE]
    /\ pc' = "idle"
    /\ runs' = runs + 1
    /\ rerun' = NoRerun
    /\ state' = FileOf("object", EmptyMap)
    /\ loaded' = FileOf("object", EmptyMap)
    /\ seen' = {}
    /\ new_notices' = <<>>
    /\ checked_count' = 0
    /\ fi' = 1
    /\ outs' = <<>>
    /\ UNCHANGED <<clockVars, file, ticked, hbLog, notifyVars, httpVars, pure>>

NextCrash ==
    \/ Tick
    \/ FetchersTookTime
    \/ StartMain
    \/ FetcherRaises
    \/ FetcherReturns
    \/ TrimAndOpen
    \/ WriteText
    \/ Killed
    \/ MainDigest
    \/ MainHeartbeat
    \/ Exit

CrashSpec == Init /\ [][NextCrash]_vars

\* ------------------------------------------------ uid_hash on its own
Strings(chars, n) == UNION {[1..k -> chars] : k \in 0..n}

FieldChars == {"a", "|"}
FieldValues == Strings(FieldChars, MaxFieldLen)
FieldNames == 1..4

\* The rest of the program stands still while a pure function is applied.
ProgramIdle ==
    /\ now = T0
    /\ tz = 0
    /\ file = FileOf("absent", EmptyMap)
    /\ runs = 0
    /\ ticked = FALSE
    /\ rerun = NoRerun
    /\ hbLog = <<>>
    /\ pc = "idle"
    /\ CycleIdle
    /\ NotifyIdle
    /\ HttpIdle
    /\ wr = NoWrite

programVars ==
    <<clockVars, diskVars, pc, cycleVars, notifyVars, httpVars, wr>>

\* Two tuples (title, buyer, deadline, url): b is a with one field set anew.
InitHash ==
    /\ ProgramIdle
    /\ \E t \in [FieldNames -> FieldValues], i \in FieldNames, v \in FieldValues :
          pure = [op |-> "uid_hash", a |-> t, b |-> [t EXCEPT ![i] = v],
                  out |-> <<>>]

\* uid_hash is applied to a, to a once more, and to b.
CallUidHash ==
    /\ pure.op = "uid_hash"
    /\ pure.out = <<>>
    /\ pure' = [pure EXCEPT !.out =
                  << uid_hash(pure.a[1], pure.a[2], pure.a[3], pure.a[4]),
                     uid_hash(pure.a[1], pure.a[2], pure.a[3], pure.a[4]),
                     uid_hash(pure.b[1], pure.b[2], pure.b[3], pure.b[4]) >>]
    /\ UNCHANGED programVars

HashSpec == InitHash /\ [][CallUidHash]_vars

\* ------------------------------------------- relevant_score on its own
TextChars == {"w", "e", "b", "E"}
Texts == Strings(TextChars, MaxTextLen)

KeywordFiles ==
    { NoKeywordsFile,
      KeywordsFile(<<>>),
      KeywordsFile(<< <<"w", "E">> >>),
      KeywordsFile(<< <<"e">>, <<"E">>, <<" ", "e", " ">> >>),
      KeywordsFile(<< <<"e", "b">>, <<>>, <<" ", " ">>, <<"B">> >>) }

InitScore ==
    /\ ProgramIdle
    /\ \E f \in KeywordFiles, t \in Texts :
          pure = [op |-> "relevant_score", file |-> f, text |-> t, out |-> <<>>]

\* The module is imported (KEYWORDS = set(load_keywords())) and
\* relevant_score is applied to the text.
CallRelevantScore ==
    /\ pure.op = "relevant_score"
    /\ pure.out = <<>>
    /\ pure' = [pure EXCEPT !.out =
                  << ScoreAgainst(ToSet(load_keywords(pure.file)), pure.text) >>]
    /\ UNCHANGED programVars

ScoreSpec == InitScore /\ [][CallRelevantScore]_vars


\* ------------------------------------------------------------------ claims
\* All the notices the adapters called so far returned, in order.
RECURSIVE Emitted(_)
Emitted(os) == IF os = <<>> THEN <<>> ELSE Head(os).items \o Emitted(Tail(os))

SomeRaised(os) == \E i \in 1..Len(os) : os[i].raised

IsRelevant(n) == relevant_score(text_blob(n)) >= 1

\* run_cycle has returned to main: new_notices and checked_count are its
\* result, loaded is the State it started from, file the State it persisted.
Returned_run_cycle == pc = "notify"

\* C1: when run_cycle runs twice in a row with the same adapter outputs and
\* the clock standing still, the second run returns no new notice.
C1_DedupIdempotence ==
    (Returned_run_cycle /\ rerun.on /\ outs = rerun.outs /\ now = rerun.t)
        => new_notices = <<>>

\* The case C1 fails in: the State of the first run held the fingerprint of a
\* notice for more than 90 days, the adapters still emit the notice, the
\* first run skips it as seen and evicts its entry, the second run reports it.
C1_ReportedAfterEviction ==
    /\ Returned_run_cycle
    /\ rerun.on
    /\ outs = rerun.outs
    /\ now = rerun.t
    /\ new_notices # <<>>

\* C2: checked_count is the number of candidates the adapters that returned
\* emitted, whether seen, irrelevant or new; with the ERP notice and the
\* office chairs and an empty State the first run gives one new notice and
\* checked_count 2, the second run none and checked_count 2.
ScenarioOuts == <<Returned(<<NErp, NChairs>>), Returned(<<>>)>>

C2_CheckedCount ==
    /\ pc \in {"fetch", "trim", "notify"} => checked_count = Len(Emitted(outs))
    /\ (Returned_run_cycle /\ outs = ScenarioOuts /\ loaded.map = EmptyMap)
          => (new_notices = <<NErp>> /\ checked_count = 2)
    /\ (Returned_run_cycle /\ outs = ScenarioOuts /\ rerun.on
          /\ loaded.map = (Uid(NErp) :> now))
          => (new_notices = <<>> /\ checked_count = 2)

C2_Witness ==
    /\ Returned_run_cycle
    /\ rerun.on
    /\ outs = ScenarioOuts
    /\ loaded.map = (Uid(NErp) :> now)
    /\ new_notices = <<>>
    /\ checked_count = 2

\* C3: after run_cycle the persisted State holds no entry, fingerprint or
\* heartbeat key, older than 90 days at the time of the run, and holds every
\* entry of the loaded State that is newer than 90 days, unchanged.
C3_Retention ==
    Returned_run_cycle =>
        /\ \A k \in DOMAIN file.map : file.map[k] >= now - Retention
        /\ \A k \in DOMAIN loaded.map :
              loaded.map[k] > now - Retention
                  => (k \in DOMAIN file.map /\ file.map[k] = loaded.map[k])

C3_Witness ==
    /\ Returned_run_cycle
    /\ \E k \in DOMAIN loaded.map :
          loaded.map[k] < now - Retention /\ k \notin DOMAIN file.map
    /\ \E k \in DOMAIN loaded.map :
          loaded.map[k] > now - Retention /\ k \in DOMAIN file.map

\* C4: among the calls of maybe_send_heartbeat made on one UTC calendar day,
\* at most one sends the heartbeat mail and returns True.
C4_HeartbeatOncePerDay ==
    \A i, j \in 1..Len(hbLog) :
        (i # j /\ hbLog[i].sent /\ hbLog[j].sent)
            => UtcDay(hbLog[i].t) # UtcDay(hbLog[j].t)

C4_Witness ==
    /\ pc = "done"
    /\ hb_enable = "true"
    /\ hb_ret = "False"
    /\ now >= UtcDay(now) * Day + HEARTBEAT_HOUR_UTC * Hour
    /\ \E i \in 1..Len(hbLog) :
          hbLog[i].sent /\ UtcDay(hbLog[i].t) = UtcDay(now)

\* C5: when an adapter raises, the other adapters are still called, the
\* notices of those that returned are filtered, deduplicated and returned,
\* checked_count counts the items of those that returned, and the State is
\* persisted.
Accepted(candidates, seenSet) ==
    SelectSeq(candidates, LAMBDA n : Uid(n) \notin seenSet /\ IsRelevant(n))

C5_AdapterCrashIsolation ==
    /\ (Returned_run_cycle /\ SomeRaised(outs)) =>
          /\ Len(outs) = NumSources
          /\ new_notices = Accepted(Emitted(outs), DOMAIN loaded.map)
          /\ checked_count = Len(Emitted(outs))
          /\ file = FileOf("object", state.map)
          /\ \A i \in 1..Len(new_notices) :
                Uid(new_notices[i]) \in DOMAIN file.map
    /\ (pc \in {"notify", "done"} /\ SomeRaised(outs) /\ loaded.kind = "object") =>
          /\ Len(outs) = NumSources
          /\ \A i \in 1..Len(new_notices) :
                Uid(new_notices[i]) \in DOMAIN file.map

C5_Witness ==
    /\ Returned_run_cycle
    /\ outs[1].raised
    /\ ~outs[2].raised
    /\ new_notices # <<>>
    /\ checked_count = Len(outs[2].items)
    /\ Uid(new_notices[1]) \in DOMAIN file.map

\* C6: a run of main sends the digest only if run_cycle returned a new
\* notice and calls maybe_send_heartbeat only if it returned none, so it
\* never does both and hands at most one mail to the transport.
DigestAttempted == creds.read /\ hb_enable = "unread"
HeartbeatAttempted == hb_enable # "unread"

C6_TopLevelPolicy ==
    pc = "done" =>
        /\ DigestAttempted => new_notices # <<>>
        /\ HeartbeatAttempted => new_notices = <<>>
        /\ ~(DigestAttempted /\ HeartbeatAttempted)
        /\ Len(handed) <= 1
        /\ \A i \in 1..Len(handed) :
              \/ handed[i] = HeartbeatMail /\ new_notices = <<>>
              \/ handed[i] = format_email(new_notices, checked_count)
                    /\ new_notices # <<>>

C6_Witness ==
    /\ pc = "done"
    /\ new_notices # <<>>
    /\ handed = <<format_email(new_notices, checked_count)>>
    /\ hb_enable = "unread"

C6_WitnessHeartbeat ==
    /\ pc = "done"
    /\ new_notices = <<>>
    /\ handed = <<HeartbeatMail>>


\* C7: one call of http_get issues at most 3 requests, returns the response
\* of the first request that succeeds without issuing another, and when all
\* 3 fail raises the failure of the third.
C7_RetryBound ==
    /\ Len(reqs) <= RETRY_MAX
    /\ \A i \in 1..(Len(reqs) - 1) : ~reqs[i].ok
    /\ hpc = "parse" =>
          /\ reqs # <<>>
          /\ reqs[Len(reqs)].ok
          /\ page = reqs[Len(reqs)].page
    /\ (hpc = "request" /\ reqs # <<>>) => ~reqs[Len(reqs)].ok
    /\ http_raised # "none" =>
          /\ Len(reqs) = 3
          /\ \A i \in 1..3 : ~reqs[i].ok
          /\ http_raised = reqs[3].err
    /\ (Len(reqs) = 3 /\ ~reqs[3].ok) => (http_raised = reqs[3].err /\ hpc = "returned")

C7_Witness ==
    /\ hpc = "returned"
    /\ Len(reqs) = 3
    /\ http_raised = "HTTPError"
    /\ reqs[1].err = "ConnectionError"
    /\ reqs[2].err = "ConnectionError"

C7_WitnessSecondTry ==
    /\ hpc = "parse"
    /\ Len(reqs) = 2
    /\ page # <<>>

\* C8: whatever the state file holds when a run starts (nothing, no JSON, or
\* JSON that is no object of numbers), load_state yields a mapping that is
\* treated as empty and run_cycle completes without raising.
C8_StateCorruptionTolerated ==
    /\ pc # "idle" => loaded.kind = "object"
    /\ exc \notin {"AttributeError", "TypeError"}

\* C9: when the SMTP transport fails while main sends the digest or the
\* heartbeat, the failure is caught and main completes normally.
C9_SendFailureCaught == exc # "SMTPException"

\* C10: with SMTP user, password or recipient missing send_email takes no
\* SMTP step and returns without raising; run_cycle has scraped, deduplicated
\* and persisted the State all the same, and format_email has returned a
\* subject and a body.
AnyCredMissing == creds.read /\ ~(creds.user /\ creds.pass /\ creds.to)

C10_MissingCredentials ==
    (pc = "done" /\ AnyCredMissing) =>
        /\ smtp = <<>>
        /\ handed = <<>>
        /\ exc = "none"
        /\ new_notices = Accepted(Emitted(outs), DOMAIN loaded.map)
        /\ checked_count = Len(Emitted(outs))
        /\ file.kind = "object"
        /\ \A i \in 1..Len(new_notices) :
              Uid(new_notices[i]) \in DOMAIN file.map
        /\ mail = format_email(new_notices, checked_count)
        /\ mail.subject.text # ""
        /\ mail.html.checked = checked_count
        /\ Len(mail.html.rows) = Len(new_notices)

C10_Witness ==
    /\ pc = "done"
    /\ creds.read
    /\ creds.user /\ creds.pass /\ ~creds.to
    /\ new_notices # <<>>
    /\ smtp = <<>>
    /\ exc = "none"
    /\ Uid(new_notices[1]) \in DOMAIN file.map


\* C14: a candidate is in the list run_cycle returns exactly if its
\* fingerprint is no key of the State loaded at the start and its title and
\* URL score at least 1; the fingerprint of every returned notice is a key of
\* the persisted State, and no irrelevant candidate's fingerprint is added.
InList(n, list) == \E i \in 1..Len(list) : list[i] = n

C14_AcceptanceRule ==
    Returned_run_cycle =>
        LET cands == Emitted(outs)
        IN  /\ \A j \in 1..Len(cands) :
                  InList(cands[j], new_notices)
                      <=> (Uid(cands[j]) \notin DOMAIN loaded.map
                              /\ IsRelevant(cands[j]))
            /\ \A i \in 1..Len(new_notices) :
                  /\ InList(new_notices[i], cands)
                  /\ Uid(new_notices[i]) \in DOMAIN file.map
            /\ \A j \in 1..Len(cands) :
                  (~IsRelevant(cands[j]) /\ Uid(cands[j]) \in DOMAIN file.map)
                      => Uid(cands[j]) \in DOMAIN loaded.map

C14_Witness ==
    /\ Returned_run_cycle
    /\ new_notices = <<NByUrl>>
    /\ InList(NErp, Emitted(outs))
    /\ Uid(NErp) \in DOMAIN loaded.map
    /\ InList(NChairs, Emitted(outs))
    /\ Uid(NChairs) \notin DOMAIN file.map
    /\ Uid(NByUrl) \in DOMAIN file.map

\* C15: the list one run_cycle returns never holds two notices with the same
\* fingerprint, also when a candidate is emitted more than once in the run.
C15_NoDuplicatesInRun ==
    Returned_run_cycle =>
        \A i, j \in 1..Len(new_notices) :
            i # j => Uid(new_notices[i]) # Uid(new_notices[j])

\* C18: run_cycle leaves the timestamp of every fingerprint that was in the
\* State at the start as it was; all it does to the State is to add the
\* accepted fingerprints with the current time and to drop entries older
\* than 90 days.
C18_FirstSeenKept ==
    Returned_run_cycle =>
        /\ \A k \in (DOMAIN loaded.map) \cap (DOMAIN file.map) :
              file.map[k] = loaded.map[k]
        /\ \A k \in (DOMAIN file.map) \ (DOMAIN loaded.map) :
              /\ \E i \in 1..Len(new_notices) : Uid(new_notices[i]) = k
              /\ file.map[k] <= now
              /\ file.map[k] >= now - Hour
        /\ \A k \in (DOMAIN loaded.map) \ (DOMAIN file.map) :
              loaded.map[k] < now - Retention

C18_Witness ==
    /\ Returned_run_cycle
    /\ InList(NErp, Emitted(outs))
    /\ Uid(NErp) \in DOMAIN loaded.map
    /\ Uid(NErp) \in DOMAIN file.map
    /\ file.map[Uid(NErp)] = loaded.map[Uid(NErp)]
    /\ file.map[Uid(NErp)] < now
    /\ new_notices = <<NByUrl>>
    /\ file.map[Uid(NByUrl)] = now

\* C19: maybe_send_heartbeat changes at most the _last_heartbeat entry of the
\* persisted State: the entries run_cycle wrote stay as they are, and a call
\* that returns False leaves the State as it was.
C19_HeartbeatFrame ==
    (pc = "done" /\ HeartbeatAttempted) =>
        /\ file.kind = "object"
        /\ (DOMAIN file.map) \ {HBKey} = (DOMAIN state.map) \ {HBKey}
        /\ \A k \in (DOMAIN state.map) \ {HBKey} : file.map[k] = state.map[k]
        /\ hb_ret = "False" => file = FileOf("object", state.map)

C19_Witness ==
    /\ pc = "done"
    /\ hb_ret = "True"
    /\ Uid(NErp) \in DOMAIN state.map
    /\ Uid(NErp) \in DOMAIN file.map
    /\ file.map[HBKey] = now
    /\ last_hb(state.map) # now


\* C16: http_get sleeps only between attempts: every sleep is followed by
\* another request, three failed attempts make exactly two sleeps before the
\* exception is raised, and the k-th sleep lasts at least 3k and less than
\* 3k + 1 seconds.
C16_BackoffPlacement ==
    /\ hpc \in {"parse", "returned"} => Len(sleeps) = Len(reqs) - 1
    /\ http_raised # "none" => Len(sleeps) = RETRY_MAX - 1
    /\ \A k \in 1..Len(sleeps) :
          /\ sleeps[k] >= RETRY_BASE_SLEEP * k * Sec
          /\ sleeps[k] < (RETRY_BASE_SLEEP * k + 1) * Sec

\* C17: an enabled maybe_send_heartbeat goes on to send exactly if the time is
\* at or past HEARTBEAT_HOUR_UTC:00 UTC of the current UTC day and the last
\* heartbeat lies before that instant, whatever the local time zone; a
\* disabled one never sends and returns False.
TargetUtc(t) == UtcDay(t) * Day + HEARTBEAT_HOUR_UTC * Hour

C17_HeartbeatGuard ==
    (pc = "done" /\ HeartbeatAttempted) =>
        /\ hb_enable = "true" =>
              (creds.read <=> /\ now >= TargetUtc(now)
                              /\ last_hb(state.map) < TargetUtc(now))
        /\ hb_enable = "false" =>
              (hb_ret = "False" /\ ~creds.read /\ handed = <<>>)

\* C20: every fingerprint a run records was in a digest handed to the SMTP
\* server in that run, and maybe_send_heartbeat returns True and records the
\* heartbeat only when the heartbeat mail was handed over.
C20_NoSilentLoss ==
    pc = "done" =>
        /\ \A k \in (DOMAIN file.map) \ (DOMAIN loaded.map \cup {HBKey}) :
              /\ handed = <<format_email(new_notices, checked_count)>>
              /\ \E i \in 1..Len(new_notices) : Uid(new_notices[i]) = k
        /\ hb_ret = "True" => handed = <<HeartbeatMail>>


\* C11: if the process is interrupted at any point of save_state, the state
\* file the next run finds holds either the complete previous State or the
\* complete new State.
C11_AtomicPersistence ==
    (pc = "idle" /\ wr.interrupted) => file \in {wr.old, wr.new}

\* C12: uid_hash applied twice to the same tuple gives the same fingerprint,
\* and two tuples that differ in exactly one field give different
\* fingerprints, also when field values contain the separator.
DifferingFields(a, b) == {i \in FieldNames : a[i] # b[i]}

C12_FingerprintSensitivity ==
    (pure.op = "uid_hash" /\ pure.out # <<>>) =>
        /\ pure.out[1] = pure.out[2]
        /\ Cardinality(DifferingFields(pure.a, pure.b)) = 1
              => pure.out[1] # pure.out[3]

C12_Witness ==
    /\ pure.op = "uid_hash"
    /\ pure.out # <<>>
    /\ DifferingFields(pure.a, pure.b) = {3}
    /\ pure.a[3] = <<"|">>
    /\ pure.b[3] = <<>>
    /\ pure.a[2] = <<"|">>
    /\ pure.out[1] # pure.out[3]

\* C13: relevant_score(text) is the number of distinct keywords of the
\* keyword set that occur in the text as a substring when case is ignored:
\* 0 exactly when none occurs, at least 1 when one does.
SameLetter(c, d) ==
    \/ c = d
    \/ \E u \in {"E", "W", "B", "R", "P"} : {c, d} = {u, LowerChar(u)}

OccursIgnoringCase(k, text) ==
    \E off \in 0..(Len(text) - Len(k)) :
        \A j \in 1..Len(k) : SameLetter(k[j], text[off + j])

C13_RelevanceCount ==
    (pure.op = "relevant_score" /\ pure.out # <<>>) =>
        LET keywords == ToSet(load_keywords(pure.file))
            found == {k \in keywords : OccursIgnoringCase(k, pure.text)}
        IN  /\ pure.out[1] = Cardinality(found)
            /\ pure.out[1] = 0 <=> found = {}
            /\ pure.out[1] >= 1 <=> found # {}

C13_Witness ==
    /\ pure.op = "relevant_score"
    /\ pure.out = <<2>>
    /\ pure.text = <<"E", "b">>
    /\ Len(pure.file.lines) = 4

====
